---------------------------- MODULE Spec2Model ----------------------------
(***************************************************************************)
(* A model of the StaticMCP SSE bridge: the library crate                  *)
(* staticmcp_sse_lib (MCPBridge, its path resolvers and its JSON-RPC       *)
(* handlers) and the request endpoints of the two binaries built on it.    *)
(*                                                                         *)
(* Rust Strings are TLA+ strings (TLC evaluates Len, SubSeq and \o on      *)
(* them).  serde_json Values are tagged records; Option::None is the       *)
(* record None, and Some(v) is v itself.                                   *)
(***************************************************************************)
EXTENDS Integers, Sequences, FiniteSets, Bags, TLC

(***************************************************************************)
(* Bounds of the model.                                                    *)
(***************************************************************************)
\* URIs handed to uri_to_path are all concatenations of at most this many tokens.
MaxUriTokens == 3
\* Argument maps handed to tool_to_path have at most this many entries.
MaxArgs == 3
\* The shared-bridge endpoint has at most this many requests waiting for a load.
MaxInFlight == 2

(***************************************************************************)
(* Strings: the operations of str the code uses.                           *)
(***************************************************************************)
\* The printable ASCII characters in byte order, in two runs: bytes 32..95 and
\* bytes 97..126 (byte 96, the backquote, cannot be written in a TLA+ string and
\* occurs in no string of the model).
AsciiLow == " !\"#$%&'()*+,-./0123456789:;<=>?@ABCDEFGHIJKLMNOPQRSTUVWXYZ[\\]^_"

AsciiHigh == "abcdefghijklmnopqrstuvwxyz{|}~"

CharAt(s, i) == SubSeq(s, i, i)

\* The byte of every character of the two runs.
ByteOf ==
    [c \in {CharAt(AsciiLow, i) : i \in 1..Len(AsciiLow)}
           \cup {CharAt(AsciiHigh, i) : i \in 1..Len(AsciiHigh)} |->
        IF \E i \in 1..Len(AsciiLow) : CharAt(AsciiLow, i) = c
        THEN 31 + (CHOOSE i \in 1..Len(AsciiLow) : CharAt(AsciiLow, i) = c)
        ELSE 96 + (CHOOSE i \in 1..Len(AsciiHigh) : CharAt(AsciiHigh, i) = c)]

\* The byte of a one-character string.
Ord(c) == ByteOf[c]

\* str::starts_with
StartsWith(s, p) == Len(s) >= Len(p) /\ SubSeq(s, 1, Len(p)) = p

\* str::ends_with
EndsWith(s, p) == Len(s) >= Len(p) /\ SubSeq(s, Len(s) - Len(p) + 1, Len(s)) = p

\* str::contains
Contains(s, p) == \E i \in 1..(Len(s) - Len(p) + 1) : SubSeq(s, i, i + Len(p) - 1) = p

\* str::split(p).collect(): the pieces between the successive, non-overlapping
\* occurrences of p, found left to right; always at least one piece.
RECURSIVE Split(_, _)
Split(s, p) ==
    IF ~Contains(s, p) THEN <<s>>
    ELSE LET i == CHOOSE k \in 1..(Len(s) - Len(p) + 1) :
                      /\ SubSeq(s, k, k + Len(p) - 1) = p
                      /\ \A j \in 1..(k - 1) : SubSeq(s, j, j + Len(p) - 1) # p
         IN  <<SubSeq(s, 1, i - 1)>> \o Split(SubSeq(s, i + Len(p), Len(s)), p)

\* Ord for String: byte-wise lexicographic order, a proper prefix first.
RECURSIVE StrLess(_, _)
StrLess(a, b) ==
    IF Len(b) = 0 THEN FALSE
    ELSE IF Len(a) = 0 THEN TRUE
    ELSE IF CharAt(a, 1) = CharAt(b, 1)
         THEN StrLess(SubSeq(a, 2, Len(a)), SubSeq(b, 2, Len(b)))
         ELSE Ord(CharAt(a, 1)) < Ord(CharAt(b, 1))

StrLeq(a, b) == a = b \/ StrLess(a, b)

\* [T]::join(sep) on a sequence of strings.
RECURSIVE Join(_, _)
Join(ss, sep) ==
    IF Len(ss) = 0 THEN ""
    ELSE IF Len(ss) = 1 THEN ss[1]
    ELSE ss[1] \o sep \o Join(Tail(ss), sep)

\* i64::to_string: the decimal text of an integer.
Digits == "0123456789"

RECURSIVE NatToString(_)
NatToString(n) ==
    IF n < 10 THEN CharAt(Digits, n + 1)
    ELSE NatToString(n \div 10) \o CharAt(Digits, (n % 10) + 1)

IntToString(n) == IF n < 0 THEN "-" \o NatToString(0 - n) ELSE NatToString(n)

\* str::replace(['/', '+', '='], "_")
RECURSIVE ReplacePathUnsafe(_)
ReplacePathUnsafe(s) ==
    IF Len(s) = 0 THEN ""
    ELSE (IF CharAt(s, 1) \in {"/", "+", "="} THEN "_" ELSE CharAt(s, 1))
         \o ReplacePathUnsafe(SubSeq(s, 2, Len(s)))

\* The alphabet of base64::engine::general_purpose::STANDARD.
Base64Alphabet == "ABCDEFGHIJKLMNOPQRSTUVWXYZabcdefghijklmnopqrstuvwxyz0123456789+/"

Sextet(n) == CharAt(Base64Alphabet, n + 1)

\* base64 STANDARD encode of the bytes of s: three bytes give four characters,
\* a last group of one or two bytes is padded with '='.
RECURSIVE Base64Encode(_)
Base64Encode(s) ==
    IF Len(s) = 0 THEN ""
    ELSE LET b1 == Ord(CharAt(s, 1))
             b2 == IF Len(s) >= 2 THEN Ord(CharAt(s, 2)) ELSE 0
             b3 == IF Len(s) >= 3 THEN Ord(CharAt(s, 3)) ELSE 0
             c1 == Sextet(b1 \div 4)
             c2 == Sextet((b1 % 4) * 16 + (b2 \div 16))
             c3 == Sextet((b2 % 16) * 4 + (b3 \div 64))
             c4 == Sextet(b3 % 64)
         IN  IF Len(s) = 1 THEN c1 \o c2 \o "=="
             ELSE IF Len(s) = 2 THEN c1 \o c2 \o c3 \o "="
             ELSE c1 \o c2 \o c3 \o c4 \o Base64Encode(SubSeq(s, 4, Len(s)))

(***************************************************************************)
(* serde_json::Value and Option.                                           *)
(***************************************************************************)
\* Option::None
None == [t |-> "none"]

JNull == [t |-> "null"]
JBool(b) == [t |-> "bool", b |-> b]
JNum(n) == [t |-> "num", n |-> n]
JStr(s) == [t |-> "str", s |-> s]
\* An array holds a sequence of values.
JArr(a) == [t |-> "arr", a |-> a]
\* An object holds a function from its keys to their values.
JObj(o) == [t |-> "obj", o |-> o]
EmptyObj == JObj([k \in {} |-> JNull])

\* Value::get(key): the member of an object, None for a missing key and for
\* every value that is not an object.
Get(v, key) == IF v.t = "obj" /\ key \in DOMAIN v.o THEN v.o[key] ELSE None

\* The keys of a serde_json Map in the order it iterates them: sorted
\* (the map is a BTreeMap unless the preserve_order feature is chosen).
RECURSIVE SortedKeys(_)
SortedKeys(S) ==
    IF S = {} THEN <<>>
    ELSE LET m == CHOOSE k \in S : \A j \in S : StrLeq(k, j)
         IN  <<m>> \o SortedKeys(S \ {m})

\* The escapes serde_json writes inside a string literal (quote and backslash;
\* the strings of the model hold no control characters).
RECURSIVE Escape(_)
Escape(s) ==
    IF Len(s) = 0 THEN ""
    ELSE (IF CharAt(s, 1) \in {"\"", "\\"} THEN "\\" \o CharAt(s, 1) ELSE CharAt(s, 1))
         \o Escape(SubSeq(s, 2, Len(s)))

Quote(s) == "\"" \o Escape(s) \o "\""

\* serde_json::to_string: the compact serialization.
RECURSIVE to_string(_)
RECURSIVE to_string_items(_)
RECURSIVE to_string_members(_, _)
to_string(v) ==
    CASE v.t = "null" -> "null"
      [] v.t = "bool" -> (IF v.b THEN "true" ELSE "false")
      [] v.t = "num"  -> IntToString(v.n)
      [] v.t = "str"  -> Quote(v.s)
      [] v.t = "arr"  -> "[" \o Join(to_string_items(v.a), ",") \o "]"
      [] v.t = "obj"  -> "{" \o Join(to_string_members(v.o, SortedKeys(DOMAIN v.o)), ",") \o "}"

to_string_items(a) ==
    IF Len(a) = 0 THEN <<>> ELSE <<to_string(Head(a))>> \o to_string_items(Tail(a))

to_string_members(o, keys) ==
    IF Len(keys) = 0 THEN <<>>
    ELSE <<Quote(Head(keys)) \o ":" \o to_string(o[Head(keys)])>>
         \o to_string_members(o, Tail(keys))

\* The indentation of serde_json's PrettyFormatter: two spaces a level.
RECURSIVE Indent(_)
Indent(level) == IF level = 0 THEN "" ELSE "  " \o Indent(level - 1)

\* serde_json::to_string_pretty: one item or member a line, indented.
RECURSIVE Pretty(_, _)
RECURSIVE PrettyItems(_, _)
RECURSIVE PrettyMembers(_, _, _)
Pretty(v, level) ==
    CASE v.t = "arr" ->
           IF Len(v.a) = 0 THEN "[]"
           ELSE "[\n" \o Join(PrettyItems(v.a, level + 1), ",\n") \o "\n" \o Indent(level) \o "]"
      [] v.t = "obj" ->
           IF DOMAIN v.o = {} THEN "{}"
           ELSE "{\n" \o Join(PrettyMembers(v.o, SortedKeys(DOMAIN v.o), level + 1), ",\n")
                \o "\n" \o Indent(level) \o "}"
      [] OTHER -> to_string(v)

PrettyItems(a, level) ==
    IF Len(a) = 0 THEN <<>>
    ELSE <<Indent(level) \o Pretty(Head(a), level)>> \o PrettyItems(Tail(a), level)

PrettyMembers(o, keys, level) ==
    IF Len(keys) = 0 THEN <<>>
    ELSE <<Indent(level) \o Quote(Head(keys)) \o ": " \o Pretty(o[Head(keys)], level)>>
         \o PrettyMembers(o, Tail(keys), level)

to_string_pretty(v) == Pretty(v, 0)

\* serde's Serialize for Option<Value> inside json!: None becomes null.
OptionToValue(x) == IF x = None THEN JNull ELSE x

\* serde's Deserialize for Option<Value>: a missing member (None) and null both
\* become None.
ValueToOption(x) == IF x = None \/ x = JNull THEN None ELSE x

(***************************************************************************)
(* MCPBridge::uri_to_path and MCPBridge::tool_to_path.                     *)
(***************************************************************************)
\* uri_to_path splitting at the first "://" only (splitn(2, "://")).
uri_to_path_first_split(uri) ==
    IF StartsWith(uri, "file://")
    THEN "resources/" \o SubSeq(uri, Len("file://") + 1, Len(uri)) \o ".json"
    ELSE IF Contains(uri, "://")
    THEN LET head == Split(uri, "://")[1]
         IN  "resources/" \o SubSeq(uri, Len(head) + Len("://") + 1, Len(uri)) \o ".json"
    ELSE IF EndsWith(uri, ".json") THEN uri
    ELSE uri \o ".json"

uri_to_path(uri) ==
    IF StartsWith(uri, "file://")
    THEN "resources/" \o SubSeq(uri, Len("file://") + 1, Len(uri)) \o ".json"
    ELSE IF Contains(uri, "://")
    THEN LET parts == Split(uri, "://")
         IN  IF Len(parts) = 2 THEN "resources/" \o parts[2] \o ".json"
             ELSE uri \o ".json"
    ELSE IF EndsWith(uri, ".json") THEN uri
    ELSE uri \o ".json"

\* The match on the argument's Value, written three times in tool_to_path.
ArgString(v) ==
    CASE v.t = "str"  -> v.s
      [] v.t = "num"  -> IntToString(v.n)
      [] v.t = "bool" -> (IF v.b THEN "true" ELSE "false")
      [] OTHER        -> to_string(v)

\* Insertion of x into a sorted sequence of strings, after its equals.
RECURSIVE InsertString(_, _)
InsertString(sorted, x) ==
    IF Len(sorted) = 0 THEN <<x>>
    ELSE IF StrLess(x, Head(sorted)) THEN <<x>> \o sorted
    ELSE <<Head(sorted)>> \o InsertString(Tail(sorted), x)

\* The values left in the order the HashMap gave them.
SortStringsOmitted(values) == values

\* values.sort() on a Vec<String>: a stable sort in String's order.
RECURSIVE SortStrings(_)
SortStrings(values) ==
    IF Len(values) = 0 THEN <<>>
    ELSE InsertString(SortStrings(SubSeq(values, 1, Len(values) - 1)), values[Len(values)])

RECURSIVE InsertByKey(_, _)
InsertByKey(sorted, x) ==
    IF Len(sorted) = 0 THEN <<x>>
    ELSE IF StrLess(x[1], Head(sorted)[1]) THEN <<x>> \o sorted
    ELSE <<Head(sorted)>> \o InsertByKey(Tail(sorted), x)

\* The pairs left in the order the HashMap gave them.
SortByKeyOmitted(pairs) == pairs

\* sorted_args.sort_by(|a, b| a.0.cmp(&b.0)): a stable sort of the pairs by key.
RECURSIVE SortByKey(_)
SortByKey(pairs) ==
    IF Len(pairs) = 0 THEN <<>>
    ELSE InsertByKey(SortByKey(SubSeq(pairs, 1, Len(pairs) - 1)), pairs[Len(pairs)])

\* args is the HashMap, a function from its keys to their values; order is the
\* sequence in which this HashMap happens to iterate its keys.
tool_to_path(tool_name, args, order) ==
    LET tool_dir == "tools/" \o tool_name
        n == Cardinality(DOMAIN args)
    IN  IF n = 0 THEN tool_dir \o ".json"
        ELSE IF n = 1 THEN tool_dir \o "/" \o ArgString(args[order[1]]) \o ".json"
        ELSE IF n = 2
        THEN LET values == SortStrings([i \in 1..2 |-> ArgString(args[order[i]])])
             IN  tool_dir \o "/" \o values[1] \o "/" \o values[2] \o ".json"
        ELSE LET sorted_args ==
                     SortByKey([i \in 1..n |-> <<order[i], ArgString(args[order[i]])>>])
                 arg_string ==
                     Join([i \in 1..n |-> sorted_args[i][1] \o "=" \o sorted_args[i][2]], "&")
                 hash == ReplacePathUnsafe(Base64Encode(arg_string))
             IN  tool_dir \o "/" \o hash \o ".json"

(***************************************************************************)
(* MCPDataSource: a content store is a function from the relative paths it *)
(* holds to what loading each yields.  anyhow::Result is Ok(value) or      *)
(* Err(text), the text being the error's Display.                          *)
(***************************************************************************)
Ok(v) == [ok |-> TRUE, value |-> v]
Err(e) == [ok |-> FALSE, error |-> e]

\* The failures of load_json: a missing file, a body that is no JSON, and a
\* response whose status is not a success.
IoErrorText == "No such file or directory (os error 2)"
ParseErrorText == "expected value at line 1 column 1"
HttpErrorText == "HTTP 404 Not Found: Not Found"

\* LocalDataSource::load_json and RemoteDataSource::load_json: the outcome the
\* store holds for the path, the read's failure for a path it does not hold.
load_json(data_source, relative_path) ==
    IF relative_path \in DOMAIN data_source THEN data_source[relative_path]
    ELSE Err(IoErrorText)

\* A member of a struct being deserialized from v: by name from an object, by
\* position from an array; None when the object lacks it.
Field(v, name, index) == IF v.t = "obj" THEN Get(v, name) ELSE v.a[index]

\* Whether serde can read a struct of n fields from v at all: any object, or an
\* array of exactly n elements.
IsStruct(v, n) == v.t = "obj" \/ (v.t = "arr" /\ Len(v.a) = n)

InvalidTypeText == "invalid type"

\* Deserialize for ServerInfo { name: String, version: String }.
ParseServerInfo(v) ==
    IF ~IsStruct(v, 2) THEN Err(InvalidTypeText)
    ELSE LET name == Field(v, "name", 1)
             version == Field(v, "version", 2)
         IN  IF name = None \/ version = None THEN Err("missing field")
             ELSE IF name.t # "str" \/ version.t # "str" THEN Err(InvalidTypeText)
             ELSE Ok([name |-> name.s, version |-> version.s])

\* Deserialize for Option<Vec<Value>>: a missing member and null are None, an
\* array is its items unchanged, anything else is an error.
ParseOptionVec(v) ==
    IF v = None \/ v = JNull THEN Ok(None)
    ELSE IF v.t = "arr" THEN Ok(v.a)
    ELSE Err(InvalidTypeText)

\* Deserialize for Capabilities { resources, tools }.
ParseCapabilities(v) ==
    IF ~IsStruct(v, 2) THEN Err(InvalidTypeText)
    ELSE LET resources == ParseOptionVec(Field(v, "resources", 1))
             tools == ParseOptionVec(Field(v, "tools", 2))
         IN  IF ~resources.ok THEN resources
             ELSE IF ~tools.ok THEN tools
             ELSE Ok([resources |-> resources.value, tools |-> tools.value])

\* serde_json::from_value::<MCPManifest>: Deserialize for
\* MCPManifest { serverInfo: Option<ServerInfo>, capabilities: Option<Capabilities> }.
ParseManifest(v) ==
    IF ~IsStruct(v, 2) THEN Err(InvalidTypeText)
    ELSE LET si == Field(v, "serverInfo", 1)
             caps == Field(v, "capabilities", 2)
             server_info == IF si = None \/ si = JNull THEN Ok(None) ELSE ParseServerInfo(si)
             capabilities ==
                 IF caps = None \/ caps = JNull THEN Ok(None) ELSE ParseCapabilities(caps)
         IN  IF ~server_info.ok THEN server_info
             ELSE IF ~capabilities.ok THEN capabilities
             ELSE Ok([server_info |-> server_info.value,
                      capabilities |-> capabilities.value])

\* load_manifest, the same in both data sources.
load_manifest(data_source) ==
    LET manifest_data == load_json(data_source, "mcp.json")
    IN  IF ~manifest_data.ok THEN manifest_data ELSE ParseManifest(manifest_data.value)

(***************************************************************************)
(* MCPBridge: its data source and its manifest, and the handlers.          *)
(***************************************************************************)
MCPResponse(id, result, error) ==
    [jsonrpc |-> "2.0", id |-> id, result |-> result, error |-> error]

MCPError(code, message) == [code |-> code, message |-> message, data |-> None]

MethodNotFound == -32601
InternalError == -32603

\* MCPBridge::initialize: the manifest the bridge holds afterwards. The ? returns
\* before the assignment when load_manifest fails.
initialize(manifest, data_source) ==
    LET loaded == load_manifest(data_source)
    IN  IF loaded.ok THEN loaded.value ELSE manifest

\* The Result that MCPBridge::initialize returns.
InitializeResult(data_source) ==
    LET loaded == load_manifest(data_source)
    IN  IF loaded.ok THEN Ok(None) ELSE Err(loaded.error)

handle_initialize(id) ==
    MCPResponse(id,
        JObj([protocolVersion |-> JStr("2024-11-05"),
              capabilities |-> JObj([resources |-> EmptyObj, tools |-> EmptyObj]),
              serverInfo |-> JObj([name |-> JStr("sse-static-mcp-bridge"),
                                   version |-> JStr("1.0.0")])]),
        None)

\* handle_list_resources answering nothing at all without a manifest.
handle_list_resources_silent(manifest, id) ==
    IF manifest # None
    THEN LET resources ==
                 IF manifest.capabilities # None /\ manifest.capabilities.resources # None
                 THEN manifest.capabilities.resources
                 ELSE <<>>
         IN  MCPResponse(id, JObj([resources |-> JArr(resources)]), None)
    ELSE MCPResponse(id, None, None)

handle_list_resources(manifest, id) ==
    IF manifest # None
    THEN LET resources ==
                 IF manifest.capabilities # None /\ manifest.capabilities.resources # None
                 THEN manifest.capabilities.resources
                 ELSE <<>>
         IN  MCPResponse(id, JObj([resources |-> JArr(resources)]), None)
    ELSE MCPResponse(id, None, MCPError(InternalError, "Manifest not loaded"))

\* handle_list_tools copied from handle_list_resources with the list left unchanged.
handle_list_tools_copied(manifest, id) ==
    IF manifest # None
    THEN LET tools ==
                 IF manifest.capabilities # None /\ manifest.capabilities.resources # None
                 THEN manifest.capabilities.resources
                 ELSE <<>>
         IN  MCPResponse(id, JObj([tools |-> JArr(tools)]), None)
    ELSE MCPResponse(id, None, MCPError(InternalError, "Manifest not loaded"))

handle_list_tools(manifest, id) ==
    IF manifest # None
    THEN LET tools ==
                 IF manifest.capabilities # None /\ manifest.capabilities.tools # None
                 THEN manifest.capabilities.tools
                 ELSE <<>>
         IN  MCPResponse(id, JObj([tools |-> JArr(tools)]), None)
    ELSE MCPResponse(id, None, MCPError(InternalError, "Manifest not loaded"))

\* params.get(key).and_then(|u| u.as_str()).unwrap_or(""): the member when it
\* is a string, the empty string when it is missing or anything else.
ParamStr(params, key) ==
    LET member == Get(params, key)
    IN  IF member # None /\ member.t = "str" THEN member.s ELSE ""

\* ReadContents trying the uri/mimeType/text shape before the contents member.
ReadContentsShapeFirst(resource, uri) ==
    IF /\ Get(resource, "uri") # None
       /\ Get(resource, "mimeType") # None
       /\ Get(resource, "text") # None
    THEN JArr(<<JObj([uri |-> Get(resource, "uri"),
                      mimeType |-> Get(resource, "mimeType"),
                      text |-> Get(resource, "text")])>>)
    ELSE IF Get(resource, "contents") # None THEN Get(resource, "contents")
    ELSE JArr(<<JObj([uri |-> JStr(uri),
                      mimeType |-> JStr("application/json"),
                      text |-> JStr(to_string_pretty(resource))])>>)

\* The contents handle_read_resource makes of a loaded document.
ReadContents(resource, uri) ==
    IF Get(resource, "contents") # None THEN Get(resource, "contents")
    ELSE IF /\ Get(resource, "uri") # None
            /\ Get(resource, "mimeType") # None
            /\ Get(resource, "text") # None
    THEN JArr(<<JObj([uri |-> Get(resource, "uri"),
                      mimeType |-> Get(resource, "mimeType"),
                      text |-> Get(resource, "text")])>>)
    ELSE JArr(<<JObj([uri |-> JStr(uri),
                      mimeType |-> JStr("application/json"),
                      text |-> JStr(to_string_pretty(resource))])>>)

\* handle_read_resource losing the id on its error path.
handle_read_resource_drops_id(data_source, id, params) ==
    LET uri == ParamStr(params, "uri")
        loaded == load_json(data_source, uri_to_path(uri))
    IN  IF loaded.ok
        THEN MCPResponse(id, JObj([contents |-> ReadContents(loaded.value, uri)]), None)
        ELSE MCPResponse(None, None,
                 MCPError(InternalError,
                          "Failed to read resource " \o uri \o ": " \o loaded.error))

handle_read_resource(data_source, id, params) ==
    LET uri == ParamStr(params, "uri")
        resource_path == uri_to_path(uri)
        loaded == load_json(data_source, resource_path)
    IN  IF loaded.ok
        THEN MCPResponse(id, JObj([contents |-> ReadContents(loaded.value, uri)]), None)
        ELSE MCPResponse(id, None,
                 MCPError(InternalError,
                          "Failed to read resource " \o uri \o ": " \o loaded.error))

\* params.get("arguments").and_then(|a| a.as_object()).cloned().unwrap_or_default(),
\* collected into the HashMap: the member's map when it is an object, else empty.
ArgsMap(params) ==
    LET member == Get(params, "arguments")
    IN  IF member # None /\ member.t = "obj" THEN member.o ELSE EmptyObj.o

\* The result handle_call_tool makes of a loaded document.
CallContent(result) ==
    IF Get(result, "content") # None \/ Get(result, "contents") # None THEN result
    ELSE JObj([content |->
                 JArr(<<JObj([type |-> JStr("text"),
                              text |-> JStr(to_string_pretty(result))])>>)])

\* handle_call_tool reporting a failed load the way handle_read_resource does,
\* and keeping the in-band result as well.
handle_call_tool_with_error(data_source, id, params, order) ==
    LET name == ParamStr(params, "name")
        loaded == load_json(data_source, tool_to_path(name, ArgsMap(params), order))
    IN  IF loaded.ok
        THEN MCPResponse(id, CallContent(loaded.value), None)
        ELSE MCPResponse(id,
                 JObj([content |->
                         JArr(<<JObj([type |-> JStr("text"),
                                      text |-> JStr("Error calling " \o name \o ": "
                                                    \o loaded.error)])>>),
                       isError |-> JBool(TRUE)]),
                 MCPError(InternalError, "Error calling " \o name \o ": " \o loaded.error))

\* order is the sequence in which args_map iterates its keys.
handle_call_tool(data_source, id, params, order) ==
    LET name == ParamStr(params, "name")
        args_map == ArgsMap(params)
        tool_path == tool_to_path(name, args_map, order)
        loaded == load_json(data_source, tool_path)
    IN  IF loaded.ok
        THEN MCPResponse(id, CallContent(loaded.value), None)
        ELSE MCPResponse(id,
                 JObj([content |->
                         JArr(<<JObj([type |-> JStr("text"),
                                      text |-> JStr("Error calling " \o name \o ": "
                                                    \o loaded.error)])>>),
                       isError |-> JBool(TRUE)]),
                 None)

\* request.params.unwrap_or(json!({}))
ParamsOrEmpty(params) == IF params = None THEN EmptyObj ELSE params

\* handle_request matching the method name without regard to case.
handle_request_any_case(manifest, data_source, request, order) ==
    CASE request.method \in {"initialize", "Initialize"} -> handle_initialize(request.id)
      [] request.method = "resources/list" -> handle_list_resources(manifest, request.id)
      [] request.method = "resources/read" ->
           handle_read_resource(data_source, request.id, ParamsOrEmpty(request.params))
      [] request.method = "tools/list" -> handle_list_tools(manifest, request.id)
      [] request.method = "tools/call" ->
           handle_call_tool(data_source, request.id, ParamsOrEmpty(request.params), order)
      [] OTHER -> MCPResponse(request.id, None, MCPError(MethodNotFound, "Method not found"))

handle_request(manifest, data_source, request, order) ==
    CASE request.method = "initialize" -> handle_initialize(request.id)
      [] request.method = "resources/list" -> handle_list_resources(manifest, request.id)
      [] request.method = "resources/read" ->
           handle_read_resource(data_source, request.id, ParamsOrEmpty(request.params))
      [] request.method = "tools/list" -> handle_list_tools(manifest, request.id)
      [] request.method = "tools/call" ->
           handle_call_tool(data_source, request.id, ParamsOrEmpty(request.params), order)
      [] OTHER -> MCPResponse(request.id, None, MCPError(MethodNotFound, "Method not found"))

(***************************************************************************)
(* The calls a handler issues on the bridge's data source, in the order it *)
(* issues them, each with the outcome the data source gives it.            *)
(***************************************************************************)
\* self.data_source.load_json(&path).await
LoadJsonCall(data_source, path) ==
    [fn |-> "load_json", path |-> path, ok |-> load_json(data_source, path).ok]

\* handle_read_resource loading its path again after a failed load.
handle_read_resource_calls_retrying(data_source, params) ==
    LET first == LoadJsonCall(data_source, uri_to_path(ParamStr(params, "uri")))
    IN  IF first.ok THEN <<first>> ELSE <<first, first>>

\* handle_read_resource: one load_json, of the path of params.uri, whose outcome
\* the match that follows turns into the response.
handle_read_resource_calls(data_source, params) ==
    <<LoadJsonCall(data_source, uri_to_path(ParamStr(params, "uri")))>>

\* handle_call_tool: one load_json, of the path of the tool and its arguments.
handle_call_tool_calls(data_source, params, order) ==
    <<LoadJsonCall(data_source,
                   tool_to_path(ParamStr(params, "name"), ArgsMap(params), order))>>

\* handle_request: the calls of the handler the method selects; handle_initialize,
\* handle_list_resources, handle_list_tools and the fallback arm issue none.
handle_request_calls(data_source, request, order) ==
    CASE request.method = "resources/read" ->
           handle_read_resource_calls(data_source, ParamsOrEmpty(request.params))
      [] request.method = "tools/call" ->
           handle_call_tool_calls(data_source, ParamsOrEmpty(request.params), order)
      [] OTHER -> <<>>

\* MCPBridge::initialize: one load_manifest.
initialize_calls(data_source) ==
    <<[fn |-> "load_manifest", ok |-> load_manifest(data_source).ok]>>

(***************************************************************************)
(* The request endpoint of the per-request binary (staticmcp_sse_dynamic). *)
(***************************************************************************)
\* Serialize for MCPError, data skipped when None.
SerializeError(e) ==
    IF e.data = None
    THEN JObj([code |-> JNum(e.code), message |-> JStr(e.message)])
    ELSE JObj([code |-> JNum(e.code), message |-> JStr(e.message), data |-> e.data])

\* serde_json::to_value(response): Serialize for MCPResponse, result and error
\* skipped when None, id written as null when None.
SerializeResponse(r) ==
    LET base == [jsonrpc |-> JStr(r.jsonrpc), id |-> OptionToValue(r.id)]
    IN  JObj(base
             @@ (IF r.result = None THEN <<>> ELSE [result |-> r.result])
             @@ (IF r.error = None THEN <<>> ELSE [error |-> SerializeError(r.error)]))

\* create_remote_bridge handing out the bridge whatever initialize() returned.
create_remote_bridge_unchecked(remote) ==
    Ok([data_source |-> remote, manifest |-> initialize(None, remote)])

\* create_remote_bridge: MCPBridge::new, then initialize()?.
create_remote_bridge(remote) ==
    LET result == InitializeResult(remote)
    IN  IF result.ok
        THEN Ok([data_source |-> remote, manifest |-> initialize(None, remote)])
        ELSE result

\* mcp_sse_endpoint: remote is the content served at params.url.
mcp_sse_endpoint(remote, request, order) ==
    LET created == create_remote_bridge(remote)
    IN  IF created.ok
        THEN Ok(SerializeResponse(
                 handle_request(created.value.manifest, created.value.data_source,
                                request, order)))
        ELSE Ok(JObj([jsonrpc |-> JStr("2.0"),
                      id |-> OptionToValue(request.id),
                      error |-> JObj([code |-> JNum(InternalError),
                                      message |-> JStr("Failed to connect to remote MCP: "
                                                       \o created.error)])]))

\* bridge.handle_request(request) as an endpoint calls it: the call itself,
\* with whether the bridge it is made on holds a manifest, then the handler's.
HandleRequestCall(bridge, request, order) ==
    <<[fn |-> "handle_request", ready |-> bridge.manifest # None]>>
    \o handle_request_calls(bridge.data_source, request, order)

\* The calls one request to mcp_sse_endpoint causes: create_remote_bridge
\* initializes the bridge, and the Ok arm alone calls handle_request.
mcp_sse_endpoint_calls(remote, request, order) ==
    LET created == create_remote_bridge(remote)
    IN  initialize_calls(remote)
        \o (IF created.ok THEN HandleRequestCall(created.value, request, order)
            ELSE <<>>)

(***************************************************************************)
(* The request endpoint of the shared-bridge binary (staticmcp_sse_fixed). *)
(***************************************************************************)
\* create_local_bridge: MCPBridge::new, then initialize()?.
create_local_bridge(local) ==
    LET result == InitializeResult(local)
    IN  IF result.ok
        THEN Ok([data_source |-> local, manifest |-> initialize(None, local)])
        ELSE result

\* create_bridge: a data source is the content it reads, so the two arms, which
\* differ in the kind of data source they make, are one here.
create_bridge(source_path) == create_local_bridge(source_path)

\* mcp_message_endpoint: handle_request on the shared bridge, serialized.
mcp_message_endpoint(bridge, request, order) ==
    SerializeResponse(handle_request(bridge.manifest, bridge.data_source, request, order))

(***************************************************************************)
(* The content stores, requests and resolver inputs the model ranges over. *)
(***************************************************************************)
ResourceA == JObj([uri |-> JStr("file:///a/b"), name |-> JStr("b")])
ResourceB == JObj([uri |-> JStr("https://x.com/y")])
ToolSearch == JObj([name |-> JStr("search"), description |-> JStr("find")])
ToolS == JObj([name |-> JStr("s")])

ManifestFull ==
    JObj([serverInfo |-> JObj([name |-> JStr("demo"), version |-> JStr("1.2.0")]),
          capabilities |-> JObj([resources |-> JArr(<<ResourceA, ResourceB>>),
                                 tools |-> JArr(<<ToolSearch, ToolS>>)])])

\* A manifest without capabilities.
ManifestNoCapabilities ==
    JObj([serverInfo |-> JObj([name |-> JStr("bare"), version |-> JStr("0.1.0")])])

\* A manifest whose capabilities hold no resources list, and tools in another order.
ManifestToolsOnly ==
    JObj([capabilities |-> JObj([resources |-> JNull, tools |-> JArr(<<ToolS, ToolSearch>>)])])

\* A manifest serde cannot read: capabilities of the wrong type.
ManifestWrongType == JObj([capabilities |-> JStr("all")])

TextBlock(text) == JObj([type |-> JStr("text"), text |-> JStr(text)])

ContentItem(uri, text) ==
    JObj([uri |-> JStr(uri), mimeType |-> JStr("text/plain"), text |-> JStr(text)])

StoreA ==
    ("mcp.json" :> Ok(ManifestFull))
    @@ ("resources//a/b.json" :> Ok(JObj([contents |-> JArr(<<ContentItem("file:///a/b", "ab")>>)])))
    @@ ("resources/x.com/y.json" :> Ok(ContentItem("https://x.com/y", "xy")))
    @@ ("plain.json" :> Ok(JObj([title |-> JStr("t"), n |-> JNum(1)])))
    @@ ("already.json" :> Ok(JArr(<<JNum(1), JNum(2)>>)))
    @@ (".json" :> Ok(JObj([text |-> JStr("root")])))
    @@ ("tools/search.json" :> Ok(JObj([content |-> JArr(<<TextBlock("all")>>)])))
    @@ ("tools/search/cats.json" :> Ok(JObj([contents |-> JArr(<<TextBlock("cats")>>)])))
    @@ ("tools/s/1/2.json" :> Ok(JObj([answer |-> JNum(3)])))
    @@ ("tools/s/YT0xJmI9MiZjPXRydWU_.json" :> Ok(JArr(<<JStr("abc")>>)))

StoreB ==
    ("mcp.json" :> Ok(ManifestNoCapabilities))
    @@ ("resources//a/b.json" :>
          Ok(JObj([contents |-> JNull, uri |-> JStr("u"), mimeType |-> JStr("m"),
                   text |-> JStr("t")])))
    @@ ("resources/x.com/y.json" :> Ok(JObj([uri |-> JStr("u"), mimeType |-> JStr("m")])))
    @@ ("plain.json" :> Err(ParseErrorText))
    @@ ("already.json" :> Ok(JObj([uri |-> JNum(1), mimeType |-> JNull, text |-> EmptyObj])))
    @@ ("resources/.json" :> Ok(JStr("scalar")))
    @@ ("a://b://c.json" :> Ok(JObj([contents |-> JStr("c")])))
    @@ ("tools/search.json" :> Err(HttpErrorText))
    @@ ("tools/search/cats.json" :> Ok(JObj([content |-> JNull, isError |-> JBool(FALSE)])))
    @@ ("tools/s/1/2.json" :> Ok(JNum(3)))
    @@ ("tools//cats.json" :> Ok(EmptyObj))

StoreC ==
    ("mcp.json" :> Ok(ManifestToolsOnly))
    @@ ("plain.json" :> Ok(JObj([contents |-> JArr(<<>>), extra |-> JBool(TRUE)])))
    @@ ("tools/s/1/2.json" :> Err(ParseErrorText))

StoreD == ("mcp.json" :> Ok(ManifestWrongType))

\* A source that holds nothing, not even mcp.json.
StoreE == [path \in {} |-> Err(IoErrorText)]

Stores == {StoreA, StoreB, StoreC, StoreD, StoreE}

Ids == {None, JNull, JNum(1), JStr("abc")}

KnownMethods == {"initialize", "resources/list", "resources/read", "tools/list", "tools/call"}

Methods == KnownMethods \cup {"ping", "", "Initialize"}

ReadParams ==
    {JObj([uri |-> JStr(u)]) :
        u \in {"file:///a/b", "https://x.com/y", "plain", "already.json", "a://", "a://b://c"}}
    \cup {None, EmptyObj, JObj([uri |-> JNum(5)]), JArr(<<JStr("plain")>>)}

Args1 == JObj([q |-> JStr("cats")])
Args2 == JObj([a |-> JNum(1), b |-> JNum(2)])
Args2Swapped == JObj([x |-> JStr("2"), y |-> JNum(1)])
Args3 == JObj([c |-> JBool(TRUE), a |-> JNum(1), b |-> JNum(2)])

CallParams ==
    {JObj([name |-> JStr("search")]),
     JObj([name |-> JStr("search"), arguments |-> Args1]),
     JObj([name |-> JStr("s"), arguments |-> Args2]),
     JObj([name |-> JStr("s"), arguments |-> Args2Swapped]),
     JObj([name |-> JStr("s"), arguments |-> Args3]),
     JObj([arguments |-> Args1]),
     JObj([name |-> JStr("search"), arguments |-> JArr(<<JStr("cats")>>)]),
     JObj([name |-> JNum(7), arguments |-> JNull]),
     None}

MCPRequest(jsonrpc, id, method, params) ==
    [jsonrpc |-> jsonrpc, id |-> id, method |-> method, params |-> params]

\* Every id with every method (the params hold both a uri and a name); every
\* params of resources/read and of tools/call; a request of another protocol
\* version and without params for every method.
Requests ==
    {MCPRequest("2.0", id, method, JObj([uri |-> JStr("plain"), name |-> JStr("search")])) :
        id \in Ids, method \in Methods}
    \cup {MCPRequest("2.0", JNum(1), "resources/read", params) : params \in ReadParams}
    \cup {MCPRequest("2.0", JStr("abc"), "tools/call", params) : params \in CallParams}
    \cup {MCPRequest("1.0", None, method, None) : method \in Methods}

\* The sequences without repetition of all the elements of S: the orders in
\* which a HashMap with these keys can iterate.
RECURSIVE Perms(_)
Perms(S) ==
    IF S = {} THEN {<<>>}
    ELSE UNION {{<<x>> \o p : p \in Perms(S \ {x})} : x \in S}

\* The iteration orders of the HashMap handle_call_tool builds for the request.
IterationOrders(request) ==
    IF request.method = "tools/call"
    THEN Perms(DOMAIN ArgsMap(ParamsOrEmpty(request.params)))
    ELSE {<<>>}

(***************************************************************************)
(* The state machine of one bridge and of the per-request endpoint.        *)
(***************************************************************************)
VARIABLES
    store,      \* the content behind the bridge's data source
    manifest,   \* MCPBridge::manifest
    op,         \* the operation that ran last
    request,    \* what it was called with
    returned,   \* what it returned
    calls,      \* the calls it issued on the data source and the bridge, in order
    inflight    \* the requests the shared-bridge endpoint is serving (a bag)

vars == <<store, manifest, op, request, returned, calls, inflight>>

\* MCPBridge::new: the bridge holds no manifest.
Init ==
    /\ store \in Stores
    /\ manifest = None
    /\ op = "new"
    /\ request = None
    /\ returned = None
    /\ calls = <<>>
    /\ inflight = EmptyBag

\* bridge.initialize()
Initialize ==
    /\ manifest' = initialize(manifest, store)
    /\ returned' = InitializeResult(store)
    /\ op' = "initialize"
    /\ request' = None
    /\ calls' = initialize_calls(store)
    /\ UNCHANGED <<store, inflight>>

\* bridge.handle_request(r)
HandleRequest ==
    \E r \in Requests : \E order \in IterationOrders(r) :
        /\ returned' = handle_request(manifest, store, r, order)
        /\ request' = r
        /\ op' = "handle_request"
        /\ calls' = handle_request_calls(store, r, order)
        /\ UNCHANGED <<store, manifest, inflight>>

\* One POST to the per-request endpoint: the body's id member is missing (None),
\* null or a value, and Option's Deserialize reads the first two as None.
McpSseEndpoint ==
    \E r \in Requests : \E order \in IterationOrders(r) :
        LET received == [r EXCEPT !.id = ValueToOption(r.id)]
        IN  /\ returned' = mcp_sse_endpoint(store, received, order)
            /\ request' = received
            /\ op' = "mcp_sse_endpoint"
            /\ calls' = mcp_sse_endpoint_calls(store, received, order)
            /\ UNCHANGED <<store, manifest, inflight>>

\* The content author replaces the content the data source reads.
ContentChange ==
    /\ store' \in Stores \ {store}
    /\ op' = "content_change"
    /\ request' = None
    /\ returned' = None
    /\ calls' = <<>>
    /\ UNCHANGED <<manifest, inflight>>

Next == Initialize \/ HandleRequest \/ McpSseEndpoint \/ ContentChange

Spec == Init /\ [][Next]_vars

(***************************************************************************)
(* The path resolvers on their own: the initial state draws the arguments  *)
(* of one resolver, and the resolver is then called on them, any number of *)
(* times (neither resolver reads the manifest or the data source).         *)
(***************************************************************************)
UriTokens == {"file://", "://", "http", "a/b", ".json", "/"}

\* The concatenations of at most n tokens.
RECURSIVE UrisOf(_)
UrisOf(n) ==
    IF n = 0 THEN {""}
    ELSE LET shorter == UrisOf(n - 1)
         IN  shorter \cup {u \o t : u \in shorter, t \in UriTokens}

Uris == UrisOf(MaxUriTokens)

KeyPool == <<"q", "b", "a", "k", "z", "c">>

ArgKeys == {KeyPool[i] : i \in 1..MaxArgs}

ArgValues == {JStr("12"), JNum(12), JNum(2), JBool(TRUE), JNull}

\* The argument maps of at most MaxArgs entries.
ArgMaps == UNION {[keys -> ArgValues] : keys \in SUBSET ArgKeys}

ToolNames == {"search", ""}

ResolverInputs ==
    {[fn |-> "uri_to_path", uri |-> uri] : uri \in Uris}
    \cup {[fn |-> "tool_to_path", tool_name |-> name, args |-> args] :
            name \in ToolNames, args \in ArgMaps}

PathInit ==
    /\ store = StoreD
    /\ manifest = initialize(None, StoreD)
    /\ op = "new"
    /\ request \in ResolverInputs
    /\ returned = None
    /\ calls = <<>>
    /\ inflight = EmptyBag

\* bridge.uri_to_path(uri)
UriToPath ==
    /\ request.fn = "uri_to_path"
    /\ returned' = uri_to_path(request.uri)
    /\ op' = "uri_to_path"
    /\ UNCHANGED <<store, manifest, request, calls, inflight>>

\* bridge.tool_to_path(tool_name, &args), the HashMap iterating in some order.
ToolToPath ==
    /\ request.fn = "tool_to_path"
    /\ \E order \in Perms(DOMAIN request.args) :
           returned' = tool_to_path(request.tool_name, request.args, order)
    /\ op' = "tool_to_path"
    /\ UNCHANGED <<store, manifest, request, calls, inflight>>

PathNext == UriToPath \/ ToolToPath

PathSpec == PathInit /\ [][PathNext]_vars

(***************************************************************************)
(* The shared-bridge binary (staticmcp_sse_fixed): main creates one bridge *)
(* and serves every POST /sse from it through an Arc.  A handler future    *)
(* runs from one await to the next without yielding, and the only await    *)
(* under handle_request is the load_json of resources/read and tools/call: *)
(* a request of another method is answered in one step, a request of these *)
(* two is in flight from the moment the load is issued (its path computed) *)
(* until the load completes, and any number of other steps, of other       *)
(* requests and of the content author, fall in between.                    *)
(***************************************************************************)
\* The bridge behind the Arc.
SharedBridge == [data_source |-> store, manifest |-> manifest]

\* The shared bridge as the call sees it that resumes from its load_json of
\* path: the data source answers that load with what the content holds now.
BridgeAtLoad(path) ==
    [data_source |-> (path :> load_json(store, path)), manifest |-> manifest]

FixedRequests ==
    {MCPRequest("2.0", JNum(1), method, JObj([uri |-> JStr("plain"), name |-> JStr("search")])) :
        method \in KnownMethods \cup {"ping"}}
    \cup {MCPRequest("2.0", JNum(1), "resources/read", JObj([uri |-> JStr("file:///a/b")])),
          MCPRequest("2.0", JStr("abc"), "tools/call",
                     JObj([name |-> JStr("s"), arguments |-> Args2]))}

\* main: the server runs only when create_bridge succeeded (exit(1) otherwise).
FixedInit ==
    /\ store \in {s \in Stores : create_bridge(s).ok}
    /\ manifest = create_bridge(store).value.manifest
    /\ op = "create_bridge"
    /\ request = None
    /\ returned = None
    /\ calls = initialize_calls(store)
    /\ inflight = EmptyBag

\* A request whose handler holds no await: received, handled and answered.
Answer ==
    \E r \in FixedRequests : \E order \in IterationOrders(r) :
        /\ handle_request_calls(store, r, order) = <<>>
        /\ returned' = mcp_message_endpoint(SharedBridge, r, order)
        /\ request' = r
        /\ op' = "mcp_message_endpoint"
        /\ calls' = HandleRequestCall(SharedBridge, r, order)
        /\ UNCHANGED <<store, manifest, inflight>>

\* A resources/read or tools/call is received and runs up to its load_json:
\* the path is computed and the load issued.
Await ==
    \E r \in FixedRequests : \E order \in IterationOrders(r) :
        LET issued == handle_request_calls(store, r, order)
        IN  /\ BagCardinality(inflight) < MaxInFlight
            /\ issued # <<>>
            /\ inflight' = inflight (+) SetToBag({[request |-> r, order |-> order,
                                                   path |-> issued[1].path]})
            /\ UNCHANGED <<store, manifest, op, request, returned, calls>>

\* Resume with the path kept in the shared bridge instead of the call's own
\* frame: the load that completes is the one another waiting call issued.
ResumeSharedPath ==
    \E call \in BagToSet(inflight) : \E other \in BagToSet(inflight) :
        /\ inflight' = inflight (-) SetToBag({call})
        /\ returned' = mcp_message_endpoint(
                           [data_source |-> (call.path :> load_json(store, other.path)),
                            manifest |-> manifest],
                           call.request, call.order)
        /\ request' = call.request
        /\ op' = "mcp_message_endpoint"
        /\ calls' = HandleRequestCall(SharedBridge, call.request, call.order)
        /\ UNCHANGED <<store, manifest>>

\* The load of one waiting request completes: its handler builds the response
\* from the outcome and the endpoint answers.
Resume ==
    \E call \in BagToSet(inflight) :
        /\ inflight' = inflight (-) SetToBag({call})
        /\ returned' = mcp_message_endpoint(BridgeAtLoad(call.path), call.request, call.order)
        /\ request' = call.request
        /\ op' = "mcp_message_endpoint"
        /\ calls' = HandleRequestCall(SharedBridge, call.request, call.order)
        /\ UNCHANGED <<store, manifest>>

FixedNext == Answer \/ Await \/ Resume \/ ContentChange

FixedSpec == FixedInit /\ [][FixedNext]_vars

(***************************************************************************)
(* Properties.                                                             *)
(***************************************************************************)
\* C1: every response of handle_request, for any method, params, manifest and
\* load outcome, has jsonrpc "2.0" and exactly one of result and error.
Thm_C1 ==
    op = "handle_request" =>
        /\ returned.jsonrpc = "2.0"
        /\ (returned.result = None) # (returned.error = None)

\* A tools/call whose load failed, on a bridge without a manifest, answered
\* with a result and no error to a request of protocol version 1.0.
Wit_C1 ==
    /\ op = "handle_request"
    /\ manifest = None
    /\ request.method = "tools/call"
    /\ request.jsonrpc = "1.0"
    /\ returned.jsonrpc = "2.0"
    /\ returned.error = None
    /\ returned.result.o["isError"] = JBool(TRUE)

\* The id member of the reply of the per-request endpoint.
ReplyId == returned.value.o["id"]

\* C2: the id of every response is the id of its request, None when the request
\* has none; and the error reply of the per-request endpoint, built when the
\* bridge could not be created, carries the request's id, written as null when
\* the request has none.
Thm_C2 ==
    /\ op = "handle_request" => returned.id = request.id
    /\ (op = "mcp_sse_endpoint" /\ ~create_remote_bridge(store).ok) =>
           /\ returned.ok
           /\ "id" \in DOMAIN returned.value.o
           /\ request.id = None => ReplyId = JNull
           /\ request.id # None => ReplyId = request.id

\* The per-request endpoint could not create its bridge and answers a request
\* without id.
Wit_C2 ==
    /\ op = "mcp_sse_endpoint"
    /\ ~create_remote_bridge(store).ok
    /\ request.id = None
    /\ request.method = "resources/read"
    /\ ReplyId = JNull

\* C3: a method other than the five yields error -32601 "Method not found" and
\* no result, whatever the manifest and the store; one of the five never yields
\* -32601, and an error it yields has code -32603.
Thm_C3 ==
    op = "handle_request" =>
        IF request.method \in
               {"initialize", "resources/list", "resources/read", "tools/list", "tools/call"}
        THEN returned.error # None => returned.error.code = -32603
        ELSE /\ returned.result = None
             /\ returned.error # None
             /\ returned.error.code = -32601
             /\ returned.error.message = "Method not found"

\* A method that differs from a known one by case only, on an initialized bridge.
Wit_C3 ==
    /\ op = "handle_request"
    /\ manifest # None
    /\ request.method = "Initialize"
    /\ returned.error # None
    /\ returned.error.code = -32601

\* The descriptor list of the manifest for a list method, empty when the
\* capabilities or the list are absent.
ListOf(m, member) ==
    IF m.capabilities = None THEN <<>>
    ELSE IF m.capabilities[member] = None THEN <<>>
    ELSE m.capabilities[member]

\* C4: resources/list and tools/list answer error -32603 "Manifest not loaded"
\* exactly when the bridge has no manifest; otherwise a result {resources: L} or
\* {tools: L}, L the manifest's list unchanged and in order, or the empty list.
Thm_C4 ==
    /\ (op = "handle_request" /\ request.method = "resources/list") =>
           IF manifest = None
           THEN /\ returned.result = None
                /\ returned.error # None
                /\ returned.error.code = -32603
                /\ returned.error.message = "Manifest not loaded"
           ELSE /\ returned.error = None
                /\ returned.result = JObj([resources |-> JArr(ListOf(manifest, "resources"))])
    /\ (op = "handle_request" /\ request.method = "tools/list") =>
           IF manifest = None
           THEN /\ returned.result = None
                /\ returned.error # None
                /\ returned.error.code = -32603
                /\ returned.error.message = "Manifest not loaded"
           ELSE /\ returned.error = None
                /\ returned.result = JObj([tools |-> JArr(ListOf(manifest, "tools"))])

\* tools/list on a manifest that lists two tools and two other resources.
Wit_C4 ==
    /\ op = "handle_request"
    /\ request.method = "tools/list"
    /\ manifest # None
    /\ returned.result = JObj([tools |-> JArr(<<ToolSearch, ToolS>>)])

\* C5 as stated: the manifest of a bridge changes only from absent to loaded,
\* so a step never clears it and never replaces a manifest the bridge holds.
Cex_C5 == [][manifest' # manifest => (manifest = None /\ manifest' # None)]_vars

\* The uri handle_read_resource takes from the request: params.uri when the
\* params are an object holding a string there, the empty string otherwise.
RequestedUri ==
    IF request.params = None THEN ""
    ELSE IF request.params.t # "obj" THEN ""
    ELSE IF "uri" \notin DOMAIN request.params.o THEN ""
    ELSE IF request.params.o["uri"].t # "str" THEN ""
    ELSE request.params.o["uri"].s

\* The tool name handle_call_tool takes from the request, likewise.
RequestedName ==
    IF request.params = None THEN ""
    ELSE IF request.params.t # "obj" THEN ""
    ELSE IF "name" \notin DOMAIN request.params.o THEN ""
    ELSE IF request.params.o["name"].t # "str" THEN ""
    ELSE request.params.o["name"].s

\* What the store yields for the document of the resources/read request.
ReadLoad == load_json(store, uri_to_path(RequestedUri))

\* What the store yields for the document of the tools/call request (the path
\* is computed with one iteration order of the arguments).
CallLoad ==
    LET args == ArgsMap(ParamsOrEmpty(request.params))
        order == CHOOSE o \in Perms(DOMAIN args) : TRUE
    IN  load_json(store, tool_to_path(RequestedName, args, order))

\* C6: when the load fails, resources/read answers a JSON-RPC error -32603 with
\* no result and a message holding the uri and the failure text, and tools/call
\* answers a result with isError true and one text block holding the tool name
\* and the failure text; no tools/call response carries an error.
Thm_C6 ==
    /\ (op = "handle_request" /\ request.method = "resources/read" /\ ~ReadLoad.ok) =>
           /\ returned.result = None
           /\ returned.error # None
           /\ returned.error.code = -32603
           /\ returned.error.message =
                  "Failed to read resource " \o RequestedUri \o ": " \o ReadLoad.error
    /\ (op = "handle_request" /\ request.method = "tools/call" /\ ~CallLoad.ok) =>
           /\ returned.error = None
           /\ returned.result =
                  JObj([content |->
                          JArr(<<JObj([type |-> JStr("text"),
                                       text |-> JStr("Error calling " \o RequestedName
                                                     \o ": " \o CallLoad.error)])>>),
                        isError |-> JBool(TRUE)])
    /\ (op = "handle_request" /\ request.method = "tools/call") => returned.error = None

\* The same store fails a resource read with a parse error and a tool call
\* with an HTTP status: here the tool call, answered in band.
Wit_C6 ==
    /\ op = "handle_request"
    /\ request.method = "tools/call"
    /\ RequestedName = "search"
    /\ ~CallLoad.ok
    /\ returned.error = None
    /\ returned.result.o["isError"] = JBool(TRUE)
    /\ returned.result.o["content"].a[1].o["text"] =
           JStr("Error calling search: HTTP 404 Not Found: Not Found")

\* Whether the document is an object with the member.
Has(document, member) == document.t = "obj" /\ member \in DOMAIN document.o

\* C10: on a successful load resources/read answers {contents: C}: C is the
\* document's contents member when it has one; else the one-item list of its
\* uri, mimeType and text when it has all three; else the one-item list of the
\* requested uri, "application/json" and the pretty-printed document.
Thm_C10 ==
    (op = "handle_request" /\ request.method = "resources/read" /\ ReadLoad.ok) =>
        LET document == ReadLoad.value
            C == IF Has(document, "contents") THEN document.o["contents"]
                 ELSE IF Has(document, "uri") /\ Has(document, "mimeType")
                         /\ Has(document, "text")
                 THEN JArr(<<JObj([uri |-> document.o["uri"],
                                   mimeType |-> document.o["mimeType"],
                                   text |-> document.o["text"]])>>)
                 ELSE JArr(<<JObj([uri |-> JStr(RequestedUri),
                                   mimeType |-> JStr("application/json"),
                                   text |-> JStr(to_string_pretty(document))])>>)
        IN  /\ returned.error = None
            /\ returned.result = JObj([contents |-> C])

\* A document with neither shape, read as "plain": the answer wraps its
\* pretty-printed text.
Wit_C10 ==
    /\ op = "handle_request"
    /\ request.method = "resources/read"
    /\ RequestedUri = "plain"
    /\ ReadLoad.ok
    /\ returned.result =
           JObj([contents |->
                   JArr(<<JObj([uri |-> JStr("plain"),
                                mimeType |-> JStr("application/json"),
                                text |-> JStr("{\n  \"n\": 1,\n  \"title\": \"t\"\n}")])>>)])

\* The positions at which "://" occurs in the uri (occurrences cannot overlap).
SchemeMarks(uri) == {i \in 1..(Len(uri) - 2) : SubSeq(uri, i, i + 2) = "://"}

\* Everything after the first "://" of a uri that holds one.
AfterFirstMark(uri) ==
    LET first == CHOOSE i \in SchemeMarks(uri) : \A j \in SchemeMarks(uri) : i <= j
    IN  SubSeq(uri, first + 3, Len(uri))

HasFilePrefix(uri) == Len(uri) >= 7 /\ SubSeq(uri, 1, 7) = "file://"

HasJsonSuffix(uri) == Len(uri) >= 5 /\ SubSeq(uri, Len(uri) - 4, Len(uri)) = ".json"

\* The path C7 gives a uri.
ClaimedUriPath(uri) ==
    IF HasFilePrefix(uri) THEN "resources/" \o SubSeq(uri, 8, Len(uri)) \o ".json"
    ELSE IF SchemeMarks(uri) # {}
    THEN IF AfterFirstMark(uri) # "" THEN "resources/" \o AfterFirstMark(uri) \o ".json"
         ELSE uri \o ".json"
    ELSE IF HasJsonSuffix(uri) THEN uri
    ELSE uri \o ".json"

\* C7 as stated: uri_to_path returns resources/<rest>.json for a file:// uri;
\* else, when the uri holds "://", resources/<remainder>.json for a non-empty
\* remainder after the first "://" and <uri>.json for an empty one; else the uri
\* when it ends with .json; else <uri>.json.
Cex_C7 == op = "uri_to_path" => returned = ClaimedUriPath(request.uri)

\* C7 amended: uri_to_path returns resources/<rest>.json for a file:// uri;
\* else, when the uri holds "://" exactly once, resources/<remainder>.json for
\* the remainder after it, empty or not, and when it holds "://" more than once,
\* <uri>.json; else the uri when it ends with .json; else <uri>.json.
Thm_C7 ==
    op = "uri_to_path" =>
        LET uri == request.uri
        IN  returned =
                IF HasFilePrefix(uri) THEN "resources/" \o SubSeq(uri, 8, Len(uri)) \o ".json"
                ELSE IF Cardinality(SchemeMarks(uri)) = 1
                THEN "resources/" \o AfterFirstMark(uri) \o ".json"
                ELSE IF Cardinality(SchemeMarks(uri)) > 1 THEN uri \o ".json"
                ELSE IF HasJsonSuffix(uri) THEN uri
                ELSE uri \o ".json"

\* A uri that holds "://" twice and does not start with file://.
Wit_C7 ==
    /\ op = "uri_to_path"
    /\ request.uri = "http://://"
    /\ returned = "http://://.json"

\* C8: the path tool_to_path returns is the same for every order in which the
\* argument map iterates and on every call, and a call leaves the bridge's
\* manifest and data source as they were.
Thm_C8 ==
    /\ [](op = "tool_to_path" =>
            \A order \in Perms(DOMAIN request.args) :
                tool_to_path(request.tool_name, request.args, order) = returned)
    /\ [][op' = "tool_to_path" =>
            /\ (op = "tool_to_path" => returned' = returned)
            /\ manifest' = manifest
            /\ store' = store]_vars

\* A call with three arguments: the path holds the key-sorted pairs
\* a=null&b=true&q=2 in base64, YT1udWxsJmI9dHJ1ZSZxPTI=, its padding replaced.
Wit_C8 ==
    /\ op = "tool_to_path"
    /\ request.tool_name = "search"
    /\ request.args = [q |-> JNum(2), b |-> JBool(TRUE), a |-> JNull]
    /\ returned = "tools/search/YT1udWxsJmI9dHJ1ZSZxPTI_.json"

\* The strings of the values of an argument map, as a bag: how many entries
\* stringify to each.
ValueStrings(args) ==
    [v \in {ArgString(args[k]) : k \in DOMAIN args} |->
        Cardinality({k \in DOMAIN args : ArgString(args[k]) = v})]

\* C9: for two arguments tool_to_path returns tools/<name>/<v0>/<v1>.json, v0
\* and v1 the two stringified values with v0 <= v1; so every 2-entry map with
\* the same two stringified values, whatever its keys, resolves to the same path.
Thm_C9 ==
    (op = "tool_to_path" /\ Cardinality(DOMAIN request.args) = 2) =>
        /\ \E k0 \in DOMAIN request.args : \E k1 \in DOMAIN request.args \ {k0} :
               LET v0 == ArgString(request.args[k0])
                   v1 == ArgString(request.args[k1])
               IN  /\ v0 = v1 \/ StrLess(v0, v1)
                   /\ returned = "tools/" \o request.tool_name \o "/" \o v0 \o "/" \o v1
                                 \o ".json"
        /\ \A other \in ArgMaps :
               (Cardinality(DOMAIN other) = 2
                /\ ValueStrings(other) = ValueStrings(request.args)) =>
                   \A order \in Perms(DOMAIN other) :
                       tool_to_path(request.tool_name, other, order) = returned

\* The numbers 2 and 12 under any two keys: "12" sorts before "2".
Wit_C9 ==
    /\ op = "tool_to_path"
    /\ request.tool_name = "search"
    /\ request.args = [q |-> JNum(2), b |-> JNum(12)]
    /\ returned = "tools/search/12/2.json"

\* The calls of the last operation that are calls of fn.
CallsOf(fn) == SelectSeq(calls, LAMBDA c : c.fn = fn)

\* C11: the per-request endpoint initializes a bridge of its own for every
\* request (one load_manifest on the content as it is now, whatever another
\* bridge holds) and always answers with a normal transport response. When the
\* initialization fails the answer, for any method, is the envelope with
\* jsonrpc, the request's id and an error of code -32603, without result, and
\* handle_request is not called; when it succeeds the answer is the serialized
\* response of handle_request on a bridge holding the manifest just loaded. No
\* handle_request of this endpoint runs on a bridge without manifest.
Thm_C11 ==
    op = "mcp_sse_endpoint" =>
        LET loaded == load_manifest(store)
            reply == returned.value
        IN  /\ returned.ok
            /\ CallsOf("load_manifest") = <<[fn |-> "load_manifest", ok |-> loaded.ok]>>
            /\ calls[1].fn = "load_manifest"
            /\ ~loaded.ok =>
                   /\ reply.t = "obj"
                   /\ DOMAIN reply.o = {"jsonrpc", "id", "error"}
                   /\ reply.o["jsonrpc"] = JStr("2.0")
                   /\ reply.o["id"] = OptionToValue(request.id)
                   /\ reply.o["error"].o["code"] = JNum(-32603)
                   /\ CallsOf("handle_request") = <<>>
                   /\ CallsOf("load_json") = <<>>
            /\ loaded.ok =>
                   /\ loaded.value # None
                   /\ \E order \in IterationOrders(request) :
                          reply = SerializeResponse(
                                      handle_request(loaded.value, store, request, order))
                   /\ CallsOf("handle_request") = <<[fn |-> "handle_request", ready |-> TRUE]>>
            /\ \A i \in 1..Len(calls) : calls[i].fn = "handle_request" => calls[i].ready

\* The content holds no manifest and the request is an initialize, which a
\* bridge answers with a result even without manifest: the endpoint answers
\* the error envelope and calls nothing but load_manifest.
Wit_C11 ==
    /\ op = "mcp_sse_endpoint"
    /\ store = StoreE
    /\ request.method = "initialize"
    /\ request.id = JNum(1)
    /\ returned.ok
    /\ returned.value.o["id"] = JNum(1)
    /\ returned.value.o["error"].o["code"] = JNum(InternalError)
    /\ "result" \notin DOMAIN returned.value.o
    /\ calls = <<[fn |-> "load_manifest", ok |-> FALSE]>>

\* The last operation was a handle_request, called directly or by the
\* per-request endpoint on the bridge it created.
HandleRequestRan ==
    \/ op = "handle_request"
    \/ op = "mcp_sse_endpoint" /\ CallsOf("handle_request") # <<>>

\* The path the tools/call request resolves to (C8: the same for every
\* iteration order of the arguments).
CallPath ==
    LET args == ArgsMap(ParamsOrEmpty(request.params))
        order == CHOOSE o \in Perms(DOMAIN args) : TRUE
    IN  tool_to_path(RequestedName, args, order)

\* C13: a handle_request call issues exactly one load_json for resources/read
\* (of the path of the uri) and exactly one for tools/call (of the path of the
\* tool and its arguments), whether the data source answers it with a document
\* or with a failure, and none for any other method; it calls nothing else on
\* the data source. The same request handled again on the same content issues
\* the same load again: nothing is kept from the first call.
Thm_C13 ==
    /\ [](HandleRequestRan =>
            LET loads == CallsOf("load_json")
            IN  /\ CallsOf("load_manifest") = <<>> \/ op = "mcp_sse_endpoint"
                /\ Len(calls) = Len(loads) + Len(CallsOf("handle_request"))
                                + Len(CallsOf("load_manifest"))
                /\ request.method = "resources/read" =>
                       loads = <<[fn |-> "load_json",
                                  path |-> uri_to_path(RequestedUri),
                                  ok |-> ReadLoad.ok]>>
                /\ request.method = "tools/call" =>
                       loads = <<[fn |-> "load_json", path |-> CallPath, ok |-> CallLoad.ok]>>
                /\ request.method \notin {"resources/read", "tools/call"} => loads = <<>>)
    /\ [][(/\ op = "handle_request" /\ op' = "handle_request"
           /\ request' = request
           /\ request.method \in {"resources/read", "tools/call"}) =>
              Len(CallsOf("load_json")) + Len(CallsOf("load_json"))' = 2]_vars

\* A resources/read whose document the data source fails to parse: the one
\* load is issued, fails, and is not issued again.
Wit_C13 ==
    /\ op = "handle_request"
    /\ request.method = "resources/read"
    /\ RequestedUri = "plain"
    /\ store = StoreB
    /\ calls = <<[fn |-> "load_json", path |-> "plain.json", ok |-> FALSE]>>
    /\ returned.result = None
    /\ returned.error # None

\* C12: in the shared-bridge deployment, with any number of requests in flight
\* and in any interleaving, every answer is the serialized response that
\* handle_request gives the same request on its own, on the bridge's manifest
\* and the content as it is when the request's load completes; no step of a
\* request changes the manifest or the content; and a step of one request
\* leaves every other request in flight as it was.
Thm_C12 ==
    /\ [](op = "mcp_message_endpoint" =>
            \E order \in IterationOrders(request) :
                returned = SerializeResponse(handle_request(manifest, store, request, order)))
    /\ [][(inflight' # inflight \/ op' = "mcp_message_endpoint") =>
              /\ manifest' = manifest
              /\ store' = store
              /\ \/ inflight' = inflight
                 \/ /\ inflight \sqsubseteq inflight'
                    /\ BagCardinality(inflight') = BagCardinality(inflight) + 1
                 \/ /\ inflight' \sqsubseteq inflight
                    /\ BagCardinality(inflight') = BagCardinality(inflight) - 1]_vars
    /\ [](manifest # None)

\* A resources/read is answered from the document of its own uri while a
\* tools/call, received before it was answered, still waits for its load.
Wit_C12 ==
    /\ op = "mcp_message_endpoint"
    /\ request.method = "resources/read"
    /\ RequestedUri = "file:///a/b"
    /\ store = StoreA
    /\ returned.o["result"] = JObj([contents |-> JArr(<<ContentItem("file:///a/b", "ab")>>)])
    /\ \E call \in BagToSet(inflight) : call.request.method = "tools/call"

=============================================================================
